---- MODULE Spec2Model ----
(***************************************************************************)
(* A model of packages/codec/lib/encode/abi.ts: encodeAbi, encodeTupleAbi, *)
(* stringToBytes and padAndPrependLength, with the collaborators they call *)
(* (Conversion.toBytes, Conversion.shiftBigUp, utf8.encode, abiSizeInfo).  *)
(*                                                                         *)
(* Byte arrays are sequences of 0..255.  A hex string is a sequence of hex *)
(* digits 0..15, a text string a sequence of code points.  A call ends in  *)
(* one of three ways: it returns a byte array, it returns undefined (the   *)
(* NOT_ENCODABLE result), or it throws.                                    *)
(***************************************************************************)
EXTENDS Integers, Sequences, FiniteSets, TLC

\* Evm.Utils.WORD_SIZE and Evm.Utils.ADDRESS_SIZE
WORD_SIZE == 32
ADDRESS_SIZE == 20

\* Bound: the number of value nodes (leaves and composites) one call is given.
MaxNodes == 3

--------------------------------------------------------------------------
(* Numbers and byte arrays *)

RECURSIVE Pow(_, _)
Pow(b, e) == IF e = 0 THEN 1 ELSE b * Pow(b, e - 1)

\* Math.ceil(a / b) for a >= 0, b > 0
Ceil(a, b) == (a + b - 1) \div b

\* new Uint8Array(n): n zero bytes
NewUint8Array(n) == [i \in 1..n |-> 0]

RECURSIVE SumSeq(_)
SumSeq(s) == IF s = <<>> THEN 0 ELSE Head(s) + SumSeq(Tail(s))

RECURSIVE Flatten(_)
Flatten(ss) == IF ss = <<>> THEN <<>> ELSE Head(ss) \o Flatten(Tail(ss))

\* Digit k (0 the least significant) of n >= 0 in base 256.
RECURSIVE Digit(_, _)
Digit(n, k) ==
  IF n = 0 THEN 0 ELSE IF k = 0 THEN n % 256 ELSE Digit(n \div 256, k - 1)

\* The digits of n >= 0 in base 256, most significant first, in exactly len
\* bytes (the value modulo 256^len).
BigEndian(n, len) == [i \in 1..len |-> Digit(n, len - i)]

\* Conversion.toBytes(number | BN, length): BN.toTwos(8 * length), then
\* toArrayLike(Uint8Array, "be", length).  A negative n is 2^(8 length) + n,
\* whose bytes are the complements of the bytes of -n - 1.
toBytes(n, length) ==
  IF n >= 0
    THEN BigEndian(n, length)
    ELSE [i \in 1..length |-> 255 - BigEndian(-n - 1, length)[i]]

\* Conversion.toBytes(hex string, length): an odd number of digits gets a
\* leading 0, each pair of digits is one byte, and a result shorter than
\* length is padded with zero bytes on the left.  The empty string gives the
\* empty array whatever length is.
toBytesHex(hex, length) ==
  LET h == IF Len(hex) % 2 = 1 THEN <<0>> \o hex ELSE hex
      bytes == [i \in 1..(Len(h) \div 2) |-> 16 * h[2 * i - 1] + h[2 * i]]
  IN  IF hex = <<>> THEN <<>>
      ELSE IF Len(bytes) < length
        THEN NewUint8Array(length - Len(bytes)) \o bytes
        ELSE bytes

\* Conversion.shiftBigUp(value, places) for the decimal unscaled / 10^scale:
\* value * 10^places, an integer when scale <= places.
shiftBigUp(unscaled, scale, places) == unscaled * Pow(10, places - scale)

\* utf8.encode of one code point (below 2^16), as the character codes of the
\* byte string it returns.
utf8EncodeCodePoint(c) ==
  IF c < 128 THEN <<c>>
  ELSE IF c < 2048 THEN <<192 + (c \div 64), 128 + (c % 64)>>
  ELSE <<224 + (c \div 4096), 128 + ((c \div 64) % 64), 128 + (c % 64)>>

\* stringToBytes: utf8.encode, then one byte per character code
stringToBytes(str) ==
  Flatten([i \in 1..Len(str) |-> utf8EncodeCodePoint(str[i])])

\* TypedArray.prototype.set(arr, offset): the bytes of arr over buf from offset
\* (0-based) on.  It throws a RangeError when arr does not fit.
SetFits(buf, arr, offset) == offset + Len(arr) <= Len(buf)
Uint8ArraySet(buf, arr, offset) ==
  SubSeq(buf, 1, offset) \o arr \o SubSeq(buf, offset + Len(arr) + 1, Len(buf))

\* A variant that pads to the word after the payload's last full word.
padAndPrependLength_floor(bytes) ==
  LET length == Len(bytes)
      paddedLength == WORD_SIZE * ((length \div WORD_SIZE) + 1)
      encoded == NewUint8Array(WORD_SIZE + paddedLength)
      withBytes == Uint8ArraySet(encoded, bytes, WORD_SIZE)
      lengthBytes == toBytes(length, WORD_SIZE)
  IN  Uint8ArraySet(withBytes, lengthBytes, 0)

\* padAndPrependLength
padAndPrependLength(bytes) ==
  LET length == Len(bytes)
      paddedLength == WORD_SIZE * Ceil(length, WORD_SIZE)
      encoded == NewUint8Array(WORD_SIZE + paddedLength)
      withBytes == Uint8ArraySet(encoded, bytes, WORD_SIZE)
      lengthBytes == toBytes(length, WORD_SIZE)
  IN  Uint8ArraySet(withBytes, lengthBytes, 0)

--------------------------------------------------------------------------
(* Format.Types and Format.Values.Result *)

\* A type descriptor.  kind is "static" or "dynamic" for bytes and arrays,
\* visibility "internal" or "external" for functions, places the number of
\* decimal places of fixed and ufixed, length the length of a static array;
\* memberTypes holds the base type of an array, or the member types of a
\* struct or tuple in declared order.
Type(typeClass, kind) ==
  [typeClass |-> typeClass, kind |-> kind, visibility |-> "", places |-> 0,
   length |-> 0, memberTypes |-> <<>>]

ElementaryType(typeClass) == Type(typeClass, "")
FunctionType(visibility) ==
  [ElementaryType("function") EXCEPT !.visibility = visibility]
FixedType(typeClass, places) ==
  [ElementaryType(typeClass) EXCEPT !.places = places]
ArrayType(kind, baseType, length) ==
  [Type("array", kind) EXCEPT
     !.memberTypes = <<baseType>>,
     !.length = IF kind = "static" THEN length ELSE 0]
StructType(typeClass, memberTypes) ==
  [ElementaryType(typeClass) EXCEPT !.memberTypes = memberTypes]

\* A result: kind is "value" or "error" (error then names error.kind).
\* num is value.asBN, numericAsBN, or error.raw; num / 10^scale is asBig;
\* hex is asHex, asAddress or the contract's address, selector the selector
\* of an external function; strKind and str are a string's value.kind and
\* asString; elems are the elements or member values of an array, struct or
\* tuple; reference is 0 for undefined.
Result(type) ==
  [kind |-> "value", error |-> "", type |-> type, num |-> 0, scale |-> 0,
   hex |-> <<>>, selector |-> <<>>, strKind |-> "", str |-> <<>>,
   elems |-> <<>>, reference |-> 0]

NumValue(typeClass, n) == [Result(ElementaryType(typeClass)) EXCEPT !.num = n]
BoolValue(b) == NumValue("bool", IF b THEN 1 ELSE 0)
FixedValue(typeClass, places, unscaled, scale) ==
  [Result(FixedType(typeClass, places)) EXCEPT !.num = unscaled, !.scale = scale]
HexValue(typeClass, kind, hex) == [Result(Type(typeClass, kind)) EXCEPT !.hex = hex]
ValidString(str) ==
  [Result(ElementaryType("string")) EXCEPT !.strKind = "valid", !.str = str]
MalformedString(hex) ==
  [Result(ElementaryType("string")) EXCEPT !.strKind = "malformed", !.hex = hex]
FunctionExternalValue(address, selector) ==
  [Result(FunctionType("external")) EXCEPT !.hex = address, !.selector = selector]
FunctionInternalValue == Result(FunctionType("internal"))
ErrorResult(type, errorKind, raw) ==
  [Result(type) EXCEPT !.kind = "error", !.error = errorKind, !.num = raw]
ArrayValue(kind, baseType, elems, reference) ==
  [Result(ArrayType(kind, baseType, Len(elems))) EXCEPT
     !.elems = elems, !.reference = reference]
StructValue(typeClass, elems, reference) ==
  [Result(StructType(typeClass, [i \in 1..Len(elems) |-> elems[i].type])) EXCEPT
     !.elems = elems, !.reference = reference]

\* The number of nodes of a value, and of a sequence of values.
RECURSIVE Nodes(_)
Nodes(v) == 1 + SumSeq([i \in 1..Len(v.elems) |-> Nodes(v.elems[i])])
NodesOf(tuple) == SumSeq([i \in 1..Len(tuple) |-> Nodes(tuple[i])])

--------------------------------------------------------------------------
(* abiSizeInfo (allocate/abi): the head-slot size of a type and whether the *)
(* type is dynamic.  A static type's size is the length of its encoding; a  *)
(* dynamic type's head slot is one word.                                    *)

RECURSIVE abiSizeInfo(_)
abiSizeInfo(type) ==
  LET members == [i \in 1..Len(type.memberTypes) |-> abiSizeInfo(type.memberTypes[i])]
      anyDynamic == \E i \in 1..Len(members) : members[i].dynamic
      total == SumSeq([i \in 1..Len(members) |-> members[i].size])
  IN  CASE type.typeClass \in {"string"} -> [size |-> WORD_SIZE, dynamic |-> TRUE]
        [] type.typeClass = "bytes" ->
             [size |-> WORD_SIZE, dynamic |-> type.kind = "dynamic"]
        [] type.typeClass = "array" /\ type.kind = "dynamic" ->
             [size |-> WORD_SIZE, dynamic |-> TRUE]
        [] type.typeClass = "array" /\ type.kind = "static" ->
             IF type.length = 0 THEN [size |-> 0, dynamic |-> FALSE]
             ELSE IF anyDynamic THEN [size |-> WORD_SIZE, dynamic |-> TRUE]
             ELSE [size |-> type.length * members[1].size, dynamic |-> FALSE]
        [] type.typeClass \in {"struct", "tuple"} ->
             IF anyDynamic THEN [size |-> WORD_SIZE, dynamic |-> TRUE]
             ELSE [size |-> total, dynamic |-> FALSE]
        [] OTHER -> [size |-> WORD_SIZE, dynamic |-> FALSE]

--------------------------------------------------------------------------
(* How a call ends.  calls counts the invocations of encodeAbi the call made *)
(* (itself included, for encodeAbi), lookups those of abiSizeInfo; layout is *)
(* the layout of the tuple the call laid out: that of encodeTupleAbi, or of  *)
(* the call of encodeTupleAbi that encodeAbi made.                           *)

\* No layout: the call returned or threw before line 202.
NoLayout ==
  [called |-> FALSE, sizeInfo |-> <<>>, heads |-> <<>>, tails |-> <<>>,
   totalSize |-> 0, thrown |-> FALSE, encoded |-> <<>>, position |-> 0]

Returned(bytes, calls, lookups) ==
  [kind |-> "bytes", bytes |-> bytes, calls |-> calls, lookups |-> lookups,
   layout |-> NoLayout]
\* return undefined
NOT_ENCODABLE(calls, lookups) ==
  [kind |-> "undefined", bytes |-> <<>>, calls |-> calls, lookups |-> lookups,
   layout |-> NoLayout]
\* a TypeError or RangeError leaves the call
Threw(calls, lookups) ==
  [kind |-> "throw", bytes |-> <<>>, calls |-> calls, lookups |-> lookups,
   layout |-> NoLayout]

--------------------------------------------------------------------------
(* encodeTupleAbi, lines 202-246: the layout of element encodings *)

\* A variant that counts one word for each element.
startOfFirstTail_words(elementSizeInfo) == WORD_SIZE * Len(elementSizeInfo)

\* line 214: the sum of the sizes size info reports
startOfFirstTail(elementSizeInfo) ==
  SumSeq([i \in 1..Len(elementSizeInfo) |-> elementSizeInfo[i].size])

\* A variant that gives every element a tail.
tupleTail_always(elementEncodings, elementSizeInfo, i) == elementEncodings[i]

\* lines 220-228: the tail of element i
tupleTail(elementEncodings, elementSizeInfo, i) ==
  IF ~elementSizeInfo[i].dynamic THEN <<>> ELSE elementEncodings[i]

\* line 231: startOfNextTail when element i is reached (i - 1 tails pushed)
startOfNextTail(elementEncodings, elementSizeInfo, i) ==
  startOfFirstTail(elementSizeInfo)
    + SumSeq([j \in 1..(i - 1) |->
                Len(tupleTail(elementEncodings, elementSizeInfo, j))])

\* A variant whose pointers count from the start of the tails.
tupleHead_fromTails(elementEncodings, elementSizeInfo, i) ==
  IF ~elementSizeInfo[i].dynamic
    THEN elementEncodings[i]
    ELSE toBytes(startOfNextTail(elementEncodings, elementSizeInfo, i)
                   - startOfFirstTail(elementSizeInfo), WORD_SIZE)

\* A variant whose pointers are as wide as an address.
tupleHead_narrow(elementEncodings, elementSizeInfo, i) ==
  IF ~elementSizeInfo[i].dynamic
    THEN elementEncodings[i]
    ELSE toBytes(startOfNextTail(elementEncodings, elementSizeInfo, i), ADDRESS_SIZE)

\* lines 220-228: the head of element i
tupleHead(elementEncodings, elementSizeInfo, i) ==
  IF ~elementSizeInfo[i].dynamic
    THEN elementEncodings[i]
    ELSE toBytes(startOfNextTail(elementEncodings, elementSizeInfo, i), WORD_SIZE)

\* lines 238-245: encoded.set(part, position) for each part in turn, from
\* position on.  thrown: a part did not fit (the buffer is then as it was
\* when set threw).
RECURSIVE setAll(_, _, _)
setAll(encoded, parts, position) ==
  IF parts = <<>>
    THEN [thrown |-> FALSE, encoded |-> encoded, position |-> position]
  ELSE IF ~SetFits(encoded, Head(parts), position)
    THEN [thrown |-> TRUE, encoded |-> encoded, position |-> position]
  ELSE setAll(Uint8ArraySet(encoded, Head(parts), position), Tail(parts),
              position + Len(Head(parts)))

\* A variant that writes the tails last element first.
tupleLayout_tailsReversed(elementEncodings, elementSizeInfo) ==
  LET n == Len(elementEncodings)
      heads == [i \in 1..n |-> tupleHead(elementEncodings, elementSizeInfo, i)]
      tails == [i \in 1..n |-> tupleTail(elementEncodings, elementSizeInfo, i)]
      totalSize == startOfNextTail(elementEncodings, elementSizeInfo, n + 1)
      afterHeads == setAll(NewUint8Array(totalSize), heads, 0)
      afterTails == IF afterHeads.thrown THEN afterHeads
                    ELSE setAll(afterHeads.encoded, [i \in 1..n |-> tails[n + 1 - i]],
                                afterHeads.position)
  IN  [called |-> TRUE, sizeInfo |-> elementSizeInfo, heads |-> heads,
       tails |-> tails, totalSize |-> totalSize, thrown |-> afterTails.thrown,
       encoded |-> afterTails.encoded, position |-> afterTails.position]

\* lines 208-246
tupleLayout(elementEncodings, elementSizeInfo) ==
  LET n == Len(elementEncodings)
      heads == [i \in 1..n |-> tupleHead(elementEncodings, elementSizeInfo, i)]
      tails == [i \in 1..n |-> tupleTail(elementEncodings, elementSizeInfo, i)]
      totalSize == startOfNextTail(elementEncodings, elementSizeInfo, n + 1)
      afterHeads == setAll(NewUint8Array(totalSize), heads, 0)
      afterTails == IF afterHeads.thrown THEN afterHeads
                    ELSE setAll(afterHeads.encoded, tails, afterHeads.position)
  IN  [called |-> TRUE, sizeInfo |-> elementSizeInfo, heads |-> heads,
       tails |-> tails, totalSize |-> totalSize, thrown |-> afterTails.thrown,
       encoded |-> afterTails.encoded, position |-> afterTails.position]

--------------------------------------------------------------------------
(* encodeAbi and encodeTupleAbi *)

\* A variant that never sees a marker.
isCircular_never(input) == FALSE

\* lines 124 and 148: coercedInput.reference !== undefined
isCircular(input) == input.reference # 0

\* line 199: elementEncodings.some(element => element === undefined)
someUndefined(results) == \E i \in 1..Len(results) : results[i].kind = "undefined"

\* line 198: map runs the elements in order and ends at the first that throws
firstThrow(results) ==
  IF \E i \in 1..Len(results) : results[i].kind = "throw"
    THEN CHOOSE i \in 1..Len(results) :
           /\ results[i].kind = "throw"
           /\ \A j \in 1..(i - 1) : results[j].kind # "throw"
    ELSE 0

callsOf(results) ==
  LET last == IF firstThrow(results) = 0 THEN Len(results) ELSE firstThrow(results)
  IN  SumSeq([i \in 1..last |-> results[i].calls])

lookupsOf(results) ==
  LET last == IF firstThrow(results) = 0 THEN Len(results) ELSE firstThrow(results)
  IN  SumSeq([i \in 1..last |-> results[i].lookups])

\* A variant that encodes the raw payload of every error.
encodeError_anyKind(errorKind, raw) == Returned(toBytes(raw, WORD_SIZE), 1, 0)

\* lines 24-34: an error result
encodeError(errorKind, raw) ==
  IF errorKind = "IndexedReferenceTypeError"
    THEN Returned(toBytes(raw, WORD_SIZE), 1, 0)
    ELSE NOT_ENCODABLE(1, 0)

\* lines 62-70: the bytes case
encodeBytes(kind, hex) ==
  LET bytes == toBytesHex(hex, 0)
      padded == NewUint8Array(WORD_SIZE)
  IN  IF kind = "static"
        THEN IF SetFits(padded, bytes, 0)
               THEN Returned(Uint8ArraySet(padded, bytes, 0), 1, 0)
               ELSE Threw(1, 0)
        ELSE Returned(padAndPrependLength(bytes), 1, 0)  \* kind = "dynamic"

\* lines 82-93: the string case
encodeString(strKind, str, hex) ==
  LET bytes == IF strKind = "valid" THEN stringToBytes(str) ELSE toBytesHex(hex, 0)
  IN  Returned(padAndPrependLength(bytes), 1, 0)

\* lines 100-110: an external function
encodeFunctionExternal(address, selector) ==
  LET encoded == NewUint8Array(WORD_SIZE)
      addressBytes == toBytesHex(address, 0)
      selectorBytes == toBytesHex(selector, 0)
  IN  IF SetFits(encoded, addressBytes, 0)
         /\ SetFits(encoded, selectorBytes, ADDRESS_SIZE)
        THEN Returned(Uint8ArraySet(Uint8ArraySet(encoded, addressBytes, 0),
                                    selectorBytes, ADDRESS_SIZE), 1, 0)
        ELSE Threw(1, 0)

\* A variant that prefixes the byte length of the elements' encoding.
encodeArrayOf_byteLength(kind, staticEncoding, length) ==
  LET calls == 1 + staticEncoding.calls
      lookups == staticEncoding.lookups
      encoded == NewUint8Array(WORD_SIZE + Len(staticEncoding.bytes))
      withElements == Uint8ArraySet(encoded, staticEncoding.bytes, WORD_SIZE)
      lengthBytes == toBytes(Len(staticEncoding.bytes), WORD_SIZE)
  IN  IF staticEncoding.kind = "throw" THEN Threw(calls, lookups)
      ELSE IF kind = "static" THEN [staticEncoding EXCEPT !.calls = calls]
      ELSE IF staticEncoding.kind = "undefined" THEN Threw(calls, lookups)
      ELSE [staticEncoding EXCEPT
              !.bytes = Uint8ArraySet(withElements, lengthBytes, 0),
              !.calls = calls]

\* lines 128-142: what the array case makes of the result of encodeTupleAbi.
\* staticEncoding.length of undefined is a TypeError.
encodeArrayOf(kind, staticEncoding, length) ==
  LET calls == 1 + staticEncoding.calls
      lookups == staticEncoding.lookups
      encoded == NewUint8Array(WORD_SIZE + Len(staticEncoding.bytes))
      withElements == Uint8ArraySet(encoded, staticEncoding.bytes, WORD_SIZE)
      lengthBytes == toBytes(length, WORD_SIZE)
  IN  IF staticEncoding.kind = "throw" THEN Threw(calls, lookups)
      ELSE IF kind = "static" THEN [staticEncoding EXCEPT !.calls = calls]
      ELSE IF staticEncoding.kind = "undefined" THEN Threw(calls, lookups)
      ELSE [staticEncoding EXCEPT
              !.bytes = Uint8ArraySet(withElements, lengthBytes, 0),
              !.calls = calls]

\* lines 151-154 and 161-164: return encodeTupleAbi(...)
encodeStructOf(tupleEncoding) == [tupleEncoding EXCEPT !.calls = 1 + @]

RECURSIVE encodeAbi(_)
RECURSIVE encodeTupleAbi(_)

\* line 198
elementResults(tuple) == [i \in 1..Len(tuple) |-> encodeAbi(tuple[i])]

\* lines 202-204
sizeInfoOf(tuple) == [i \in 1..Len(tuple) |-> abiSizeInfo(tuple[i].type)]

\* lines 19-167
encodeAbi(input) ==
  IF input.kind = "error"
    THEN encodeError(input.error, input.num)
    ELSE CASE input.type.typeClass \in {"mapping", "magic"} -> NOT_ENCODABLE(1, 0)
           [] input.type.typeClass \in {"uint", "int", "enum"} ->
                Returned(toBytes(input.num, WORD_SIZE), 1, 0)
           [] input.type.typeClass = "bool" ->
                Returned(IF input.num # 0
                           THEN [NewUint8Array(WORD_SIZE) EXCEPT ![WORD_SIZE] = 1]
                           ELSE NewUint8Array(WORD_SIZE), 1, 0)
           [] input.type.typeClass = "bytes" -> encodeBytes(input.type.kind, input.hex)
           [] input.type.typeClass \in {"address", "contract"} ->
                Returned(toBytesHex(input.hex, WORD_SIZE), 1, 0)
           [] input.type.typeClass = "string" ->
                encodeString(input.strKind, input.str, input.hex)
           [] input.type.typeClass = "function" ->
                IF input.type.visibility = "internal"
                  THEN NOT_ENCODABLE(1, 0)
                  ELSE encodeFunctionExternal(input.hex, input.selector)
           [] input.type.typeClass \in {"fixed", "ufixed"} ->
                Returned(toBytes(shiftBigUp(input.num, input.scale, input.type.places),
                                 WORD_SIZE), 1, 0)
           [] input.type.typeClass = "array" ->
                IF isCircular(input)
                  THEN NOT_ENCODABLE(1, 0)
                  ELSE encodeArrayOf(input.type.kind, encodeTupleAbi(input.elems),
                                     Len(input.elems))
           [] input.type.typeClass = "struct" ->
                IF isCircular(input)
                  THEN NOT_ENCODABLE(1, 0)
                  ELSE encodeStructOf(encodeTupleAbi(input.elems))
           [] input.type.typeClass = "tuple" ->
                encodeStructOf(encodeTupleAbi(input.elems))

\* lines 194-247
encodeTupleAbi(tuple) ==
  LET results == elementResults(tuple)
      calls == callsOf(results)
      lookups == lookupsOf(results)
      layout == tupleLayout([i \in 1..Len(tuple) |-> results[i].bytes], sizeInfoOf(tuple))
  IN  IF firstThrow(results) # 0 THEN Threw(calls, lookups)
      ELSE IF someUndefined(results) THEN NOT_ENCODABLE(calls, lookups)
      ELSE [kind |-> IF layout.thrown THEN "throw" ELSE "bytes",
            bytes |-> IF layout.thrown THEN <<>> ELSE layout.encoded,
            calls |-> calls, lookups |-> lookups + Len(tuple), layout |-> layout]

--------------------------------------------------------------------------
(* The values the calls are given *)

\* n payload bytes, none of them zero, as a hex string
PayloadHex(n) ==
  Flatten([i \in 1..n |-> <<((37 * i + 11) % 256) \div 16, ((37 * i + 11) % 256) % 16>>])

PayloadLengths == {0, 1, 31, 32, 33, 64}

UintType == ElementaryType("uint")
StringType == ElementaryType("string")

\* "Hi", an e with acute accent, the euro sign, 32 letters, and 31 letters
\* and an e with acute accent (33 bytes of UTF-8)
Texts ==
  {<<>>, <<72, 105>>, <<233>>, <<8364>>, [i \in 1..32 |-> 97],
   [i \in 1..32 |-> IF i = 32 THEN 233 ELSE 97]}

Scalars ==
  {NumValue("uint", n) : n \in {0, 1, 258, 65536}}
    \cup {NumValue("int", n) : n \in {-1, -256, 127}}
    \cup {NumValue("enum", 2), BoolValue(TRUE), BoolValue(FALSE)}
    \cup {HexValue("bytes", "static", PayloadHex(n)) : n \in {1, 32}}
    \cup {HexValue("bytes", "dynamic", PayloadHex(n)) : n \in PayloadLengths}
    \cup {HexValue(c, "", PayloadHex(ADDRESS_SIZE)) : c \in {"address", "contract"}}
    \cup {ValidString(str) : str \in Texts}
    \cup {MalformedString(PayloadHex(n)) : n \in PayloadLengths}
    \cup {FunctionExternalValue(PayloadHex(ADDRESS_SIZE), <<10, 9, 0, 5, 9, 12, 11, 11>>),
          FunctionInternalValue}
    \cup {FixedValue("fixed", 2, -15, 1), FixedValue("ufixed", 3, 5, 0)}
    \cup {Result(ElementaryType(c)) : c \in {"mapping", "magic"}}

ErrorKinds ==
  {"IndexedReferenceTypeError", "ReadErrorStack", "UintPaddingError",
   "OverlongArraysAndStringsNotImplementedError"}

ErrorTypes ==
  {UintType, StringType, ArrayType("static", UintType, 2),
   ArrayType("dynamic", UintType, 0), StructType("struct", <<UintType, StringType>>)}

Errors == {ErrorResult(t, k, raw) : t \in ErrorTypes, k \in ErrorKinds, raw \in {7, 258}}

\* The standalone inputs of encodeAbi.
Inputs == Scalars \cup Errors

\* The leaves of composite values: a static one, two dynamic ones of
\* different lengths and one that is not encodable.  An indexed-reference-type
\* error is the value of an indexed event parameter, read from a topic: it
\* is given to encodeAbi alone, never as an element (its one word is not the
\* encoding its type's size info describes).
Elements ==
  {NumValue("uint", 258), HexValue("bytes", "dynamic", PayloadHex(33)),
   ValidString(<<72, 105>>), Result(ElementaryType("mapping"))}

--------------------------------------------------------------------------
(* The state: the element sequence built so far, and the last call *)

VARIABLES
  tuple,    \* the values built so far, in order
  call,     \* "none", "encodeAbi" or "encodeTupleAbi": the last call
  input,    \* the argument of the last call of encodeAbi
  result    \* how the last call ended

vars == <<tuple, call, input, result>>

NoValue == Result(ElementaryType(""))
NoResult ==
  [kind |-> "none", bytes |-> <<>>, calls |-> 0, lookups |-> 0, layout |-> NoLayout]

Init ==
  /\ tuple = <<>>
  /\ call = "none"
  /\ input = NoValue
  /\ result = NoResult

LastK(s, k) == SubSeq(s, Len(s) - k + 1, Len(s))
ButLastK(s, k) == SubSeq(s, 1, Len(s) - k)

\* Each run builds values and then makes one call: the encoder keeps no state
\* from one call to the next.

\* A leaf is appended.
Push(v) ==
  /\ call = "none"
  /\ NodesOf(tuple) + 1 <= MaxNodes
  /\ tuple' = Append(tuple, v)
  /\ UNCHANGED <<call, input, result>>

\* The last k values become the elements of one array (all of one type).
WrapArray(k, kind, reference) ==
  LET elems == LastK(tuple, k)
      baseType == IF k = 0 THEN UintType ELSE elems[1].type
  IN  /\ call = "none"
      /\ NodesOf(tuple) + 1 <= MaxNodes
      /\ \A i \in 1..k : elems[i].type = baseType
      /\ tuple' = Append(ButLastK(tuple, k), ArrayValue(kind, baseType, elems, reference))
      /\ UNCHANGED <<call, input, result>>

\* The last k values become the members of one struct or tuple.
WrapStruct(k, typeClass, reference) ==
  /\ call = "none"
  /\ NodesOf(tuple) + 1 <= MaxNodes
  /\ typeClass = "tuple" => reference = 0
  /\ tuple' = Append(ButLastK(tuple, k), StructValue(typeClass, LastK(tuple, k), reference))
  /\ UNCHANGED <<call, input, result>>

\* encodeAbi(v) for a standalone input
EncodeAbiInput(v) ==
  /\ call = "none"
  /\ tuple = <<>>
  /\ call' = "encodeAbi"
  /\ input' = v
  /\ result' = encodeAbi(v)
  /\ UNCHANGED tuple

\* encodeAbi(v) for the value built last
EncodeAbiLast ==
  /\ call = "none"
  /\ tuple # <<>>
  /\ call' = "encodeAbi"
  /\ input' = tuple[Len(tuple)]
  /\ result' = encodeAbi(tuple[Len(tuple)])
  /\ UNCHANGED tuple

\* encodeTupleAbi(tuple)
EncodeTupleAbi ==
  /\ call = "none"
  /\ call' = "encodeTupleAbi"
  /\ input' = NoValue
  /\ result' = encodeTupleAbi(tuple)
  /\ UNCHANGED tuple

Next ==
  \/ \E v \in Elements : Push(v)
  \/ \E k \in 0..Len(tuple), kind \in {"static", "dynamic"}, reference \in {0, 1} :
       WrapArray(k, kind, reference)
  \/ \E k \in 0..Len(tuple), typeClass \in {"struct", "tuple"}, reference \in {0, 1} :
       WrapStruct(k, typeClass, reference)
  \/ \E v \in Inputs : EncodeAbiInput(v)
  \/ EncodeAbiLast
  \/ EncodeTupleAbi

Spec == Init /\ [][Next]_vars

--------------------------------------------------------------------------
(* What the properties below speak of *)

\* The number a byte array holds as a big-endian unsigned integer.
RECURSIVE FromBigEndian(_)
FromBigEndian(bytes) ==
  IF bytes = <<>> THEN 0
  ELSE 256 * FromBigEndian(SubSeq(bytes, 1, Len(bytes) - 1)) + bytes[Len(bytes)]

\* The bytes from offset (0-based) up to offset + length.
Slice(bytes, offset, length) == SubSeq(bytes, offset + 1, offset + length)

IsComposite(v) == v.kind = "value" /\ v.type.typeClass \in {"array", "struct", "tuple"}
HasMarker(v) ==
  v.kind = "value" /\ v.type.typeClass \in {"array", "struct"} /\ v.reference # 0
IsDynamicArray(v) ==
  v.kind = "value" /\ v.type.typeClass = "array" /\ v.type.kind = "dynamic"

\* The element sequence the last call handed, or was to hand, to the layout.
laidOut == IF call = "encodeTupleAbi" THEN tuple ELSE input.elems

\* The last call was encodeAbi of an array, struct or tuple without a marker,
\* or encodeTupleAbi.
OnElements ==
  \/ call = "encodeTupleAbi"
  \/ call = "encodeAbi" /\ IsComposite(input) /\ ~HasMarker(input)

NotEncodable(v) == encodeAbi(v).kind = "undefined"

--------------------------------------------------------------------------
(* C1 *)

\* C1: NOT_ENCODABLE is contagious.  When encodeAbi yields NOT_ENCODABLE for
\* an element of a tuple, struct or array (static or dynamic) without a
\* marker, encodeAbi of the composite returns NOT_ENCODABLE, neither throwing
\* nor returning bytes; so does encodeTupleAbi of a sequence with such an
\* element.
C1_Contagious ==
  (OnElements /\ \E i \in 1..Len(laidOut) : NotEncodable(laidOut[i]))
    => result.kind = "undefined"

--------------------------------------------------------------------------
(* C4 *)

IsDynamicBlob(v) ==
  /\ v.kind = "value"
  /\ \/ v.type.typeClass = "bytes" /\ v.type.kind = "dynamic"
     \/ v.type.typeClass = "string"

\* The payload of dynamic bytes or of a string: the bytes the hex string
\* spells, or the UTF-8 bytes of a valid string.
PayloadOf(v) ==
  IF v.type.typeClass = "string" /\ v.strKind = "valid"
    THEN stringToBytes(v.str)
    ELSE [i \in 1..(Len(v.hex) \div 2) |-> 16 * v.hex[2 * i - 1] + v.hex[2 * i]]

RoundedUp(n) == IF n % WORD_SIZE = 0 THEN n ELSE n + WORD_SIZE - (n % WORD_SIZE)

\* C4: dynamic bytes and strings with a payload of n bytes encode to exactly
\* 32 + 32 * ceil(n / 32) bytes: one word holding n, the payload verbatim,
\* then zero bytes only.  A malformed string's payload is its raw bytes.
C4_LengthPrefixedPayload ==
  (call = "encodeAbi" /\ IsDynamicBlob(input)) =>
    LET payload == PayloadOf(input)
        n == Len(payload)
    IN  /\ result.kind = "bytes"
        /\ Len(result.bytes) = WORD_SIZE + RoundedUp(n)
        /\ FromBigEndian(Slice(result.bytes, 0, WORD_SIZE)) = n
        /\ Slice(result.bytes, WORD_SIZE, n) = payload
        /\ \A i \in (WORD_SIZE + n + 1)..Len(result.bytes) : result.bytes[i] = 0

\* Dynamic bytes of exactly one word were encoded.
C4_Witness ==
  /\ call = "encodeAbi"
  /\ input.type.typeClass = "bytes" /\ input.type.kind = "dynamic"
  /\ Len(PayloadOf(input)) = WORD_SIZE
  /\ Len(result.bytes) = 2 * WORD_SIZE

--------------------------------------------------------------------------
(* C5 *)

\* C5: an array or struct with a cycle marker is NOT_ENCODABLE whatever its
\* kind and contents, decided before any element is encoded: the call makes
\* no further call of encodeAbi, no call of encodeTupleAbi and no size-info
\* lookup.  No call makes more calls of encodeAbi than the values it is given
\* have nodes, so every call ends.
C5_MarkerFirst ==
  /\ (call = "encodeAbi" /\ HasMarker(input)) =>
       /\ result.kind = "undefined"
       /\ result.calls = 1
       /\ result.lookups = 0
       /\ ~result.layout.called
  /\ call = "encodeAbi" => result.calls <= Nodes(input)
  /\ call = "encodeTupleAbi" => result.calls <= NodesOf(tuple)

\* A marked array with an encodable element was given to encodeAbi.
C5_Witness ==
  /\ call = "encodeAbi"
  /\ HasMarker(input)
  /\ input.type.typeClass = "array"
  /\ Len(input.elems) > 0
  /\ \A i \in 1..Len(input.elems) : encodeAbi(input.elems[i]).kind = "bytes"
  /\ result.kind = "undefined"

--------------------------------------------------------------------------
(* C6 *)

\* C6: mapping and magic values, internal functions and every error but the
\* indexed-reference-type error are NOT_ENCODABLE; an indexed-reference-type
\* error encodes to one word holding its raw payload, whatever its type.
C6_Unencodable ==
  call = "encodeAbi" =>
    /\ (input.kind = "value" /\ input.type.typeClass \in {"mapping", "magic"})
         => result.kind = "undefined"
    /\ (input.kind = "value" /\ input.type.typeClass = "function"
          /\ input.type.visibility = "internal")
         => result.kind = "undefined"
    /\ (input.kind = "error" /\ input.error # "IndexedReferenceTypeError")
         => result.kind = "undefined"
    /\ (input.kind = "error" /\ input.error = "IndexedReferenceTypeError")
         => /\ result.kind = "bytes"
            /\ Len(result.bytes) = WORD_SIZE
            /\ FromBigEndian(result.bytes) = input.num

\* An indexed-reference-type error of a dynamic array type was encoded to
\* one word.
C6_Witness ==
  /\ call = "encodeAbi"
  /\ input.kind = "error"
  /\ input.error = "IndexedReferenceTypeError"
  /\ input.type = ArrayType("dynamic", UintType, 0)
  /\ result.kind = "bytes"
  /\ Len(result.bytes) = WORD_SIZE

--------------------------------------------------------------------------
(* The layout properties *)

encodingOf(v) == encodeAbi(v).bytes
IsDynamic(v) == abiSizeInfo(v.type).dynamic
AllEncodable(elems) == \A i \in 1..Len(elems) : encodeAbi(elems[i]).kind = "bytes"

\* Size info agrees with the encoder: a static element's size is the length
\* of its encoding, a dynamic element's size is one word.
SizeInfoAgrees(elems) ==
  \A i \in 1..Len(elems) :
    abiSizeInfo(elems[i].type).size =
      IF IsDynamic(elems[i]) THEN WORD_SIZE ELSE Len(encodingOf(elems[i]))

\* Where the head of element i begins, from the start of the tuple's encoding.
headOffset(elems, i) ==
  SumSeq([j \in 1..(i - 1) |-> abiSizeInfo(elems[j].type).size])

\* Where the encoding of dynamic element i begins, from the start of the
\* tuple's encoding: after all heads and the encodings of the dynamic
\* elements before it.
beginsAt(elems, i) ==
  headOffset(elems, Len(elems) + 1)
    + SumSeq([j \in 1..(i - 1) |->
                IF IsDynamic(elems[j]) THEN Len(encodingOf(elems[j])) ELSE 0])

\* out holds the bytes e from offset on.
HoldsAt(out, offset, e) ==
  offset + Len(e) <= Len(out) /\ Slice(out, offset, Len(e)) = e

\* Where in result.bytes the encoding of the laid-out tuple begins: after the
\* element count of a dynamic array.
tupleStart == IF call = "encodeAbi" /\ IsDynamicArray(input) THEN WORD_SIZE ELSE 0

\* The tuple's encoding begins at base in out.  The head of each dynamic
\* element is a word holding the offset from base at which that element's
\* encoding begins; and so on within each element that is itself laid out.
RECURSIVE PointersHold(_, _, _)
PointersHold(out, base, elems) ==
  SizeInfoAgrees(elems) =>
    \A i \in 1..Len(elems) :
      LET at == base + headOffset(elems, i)
          pointer == FromBigEndian(Slice(out, at, WORD_SIZE))
          start == IF IsDynamic(elems[i]) THEN base + pointer ELSE at
          within == IF IsDynamicArray(elems[i]) THEN start + WORD_SIZE ELSE start
      IN  /\ IsDynamic(elems[i]) =>
               /\ at + WORD_SIZE <= Len(out)
               /\ pointer = beginsAt(elems, i)
               /\ HoldsAt(out, start, encodingOf(elems[i]))
          /\ (IsComposite(elems[i]) /\ (IsDynamic(elems[i]) => at + WORD_SIZE <= Len(out)))
               => PointersHold(out, within, elems[i].elems)

\* C2: the head of each dynamic element holds, in one word, the offset from
\* the start of this tuple's own encoding (after the count word of a dynamic
\* array) at which the element's encoding begins, at every nesting level,
\* when size info gives each static element's encoded length.
C2_PointersRelativeToTuple ==
  (OnElements /\ result.kind = "bytes")
    => PointersHold(result.bytes, tupleStart, laidOut)

\* encodeTupleAbi laid out a dynamic composite with a dynamic element of its
\* own: a pointer inside a pointed-to tuple.
C2_Witness ==
  /\ call = "encodeTupleAbi"
  /\ result.kind = "bytes"
  /\ Len(tuple) = 1
  /\ IsComposite(tuple[1]) /\ IsDynamic(tuple[1])
  /\ Len(tuple[1].elems) = 1
  /\ IsDynamic(tuple[1].elems[1])

C7_EveryHeadOneWord ==
  (OnElements /\ result.kind = "bytes") =>
    \A i \in 1..Len(laidOut) : Len(result.layout.heads[i]) = WORD_SIZE

\* C7, amended: the head of a dynamic element (an offset) is exactly one
\* word, and so is the head of a static element that is no tuple, struct or
\* array (its encoding); the head of a static tuple, struct or fixed-size
\* array is its own encoding, a whole number of words.  The length of dynamic
\* bytes or of a string, and the element count of a dynamic array, is exactly
\* the first word.
C7_WordSizedFields ==
  /\ (OnElements /\ result.kind = "bytes") =>
       \A i \in 1..Len(laidOut) :
         LET head == result.layout.heads[i]
         IN  IF IsDynamic(laidOut[i]) \/ ~IsComposite(laidOut[i])
               THEN Len(head) = WORD_SIZE
               ELSE /\ head = encodingOf(laidOut[i])
                    /\ Len(head) % WORD_SIZE = 0
  /\ (call = "encodeAbi" /\ result.kind = "bytes"
        /\ ~IsComposite(input) /\ ~IsDynamicBlob(input)) =>
       Len(result.bytes) = WORD_SIZE
  /\ (call = "encodeAbi" /\ result.kind = "bytes" /\ IsDynamicBlob(input)) =>
       /\ FromBigEndian(Slice(result.bytes, 0, WORD_SIZE)) = Len(PayloadOf(input))
       /\ HoldsAt(result.bytes, WORD_SIZE, PayloadOf(input))
  /\ (call = "encodeAbi" /\ result.kind = "bytes" /\ IsDynamicArray(input)) =>
       /\ FromBigEndian(Slice(result.bytes, 0, WORD_SIZE)) = Len(input.elems)
       /\ HoldsAt(result.bytes, WORD_SIZE, result.layout.encoded)

\* encodeTupleAbi laid out a static tuple, struct or array of two words.
C7_Witness ==
  /\ call = "encodeTupleAbi"
  /\ result.kind = "bytes"
  /\ \E i \in 1..Len(tuple) :
       /\ IsComposite(tuple[i]) /\ ~IsDynamic(tuple[i])
       /\ Len(result.layout.heads[i]) = 2 * WORD_SIZE

\* The last call laid out elements that are all static: encodeTupleAbi, or
\* encodeAbi of a tuple, struct or fixed-size array.
OnStaticElements ==
  /\ OnElements
  /\ ~(call = "encodeAbi" /\ IsDynamicArray(input))
  /\ \A i \in 1..Len(laidOut) : ~IsDynamic(laidOut[i])

C9_ArrayPrefix ==
  (call = "encodeAbi" /\ IsComposite(input) /\ ~HasMarker(input)
     /\ encodeTupleAbi(input.elems).kind = "bytes") =>
    LET t == encodeTupleAbi(input.elems).bytes
    IN  /\ result.kind = "bytes"
        /\ IF IsDynamicArray(input)
             THEN /\ Len(result.bytes) = WORD_SIZE + Len(t)
                  /\ FromBigEndian(Slice(result.bytes, 0, WORD_SIZE)) = Len(input.elems)
                  /\ Slice(result.bytes, WORD_SIZE, Len(t)) = t
             ELSE result.bytes = t
        /\ (IsDynamicArray(input) /\ input.elems = <<>>)
             => result.bytes = [i \in 1..WORD_SIZE |-> 0]

\* encodeAbi encoded a dynamic array of two elements.
C9_Witness ==
  /\ call = "encodeAbi"
  /\ IsDynamicArray(input) /\ ~HasMarker(input)
  /\ Len(input.elems) = 2
  /\ result.kind = "bytes"

\* The length the layout must have: the head-slot sizes and the lengths of
\* the dynamic elements' encodings.
expectedLength(elems) ==
  SumSeq([i \in 1..Len(elems) |-> abiSizeInfo(elems[i].type).size])
    + SumSeq([i \in 1..Len(elems) |->
                IF IsDynamic(elems[i]) THEN Len(encodingOf(elems[i])) ELSE 0])

\* C10: when size info agrees with the encoder, the buffer encodeTupleAbi
\* returns is as long as the head slots and the dynamic elements' encodings
\* together, the write position ends at that length, and no write falls
\* outside; every successful result is a whole number of words.
C10_TotalLength ==
  /\ (OnElements /\ AllEncodable(laidOut) /\ SizeInfoAgrees(laidOut)) =>
       /\ result.kind = "bytes"
       /\ ~result.layout.thrown
       /\ Len(result.layout.encoded) = expectedLength(laidOut)
       /\ result.layout.totalSize = expectedLength(laidOut)
       /\ result.layout.position = expectedLength(laidOut)
  /\ result.kind = "bytes" => Len(result.bytes) % WORD_SIZE = 0

\* encodeTupleAbi laid out a static composite and a dynamic element.
C10_Witness ==
  /\ call = "encodeTupleAbi"
  /\ result.kind = "bytes"
  /\ \E i, j \in 1..Len(tuple) :
       IsComposite(tuple[i]) /\ ~IsDynamic(tuple[i]) /\ IsDynamic(tuple[j])

====
